---- MODULE Spec2Model ----
(***************************************************************************)
(* A model of the publish/consume engine of go-eda: the Kafka Consumer     *)
(* wrapper (subscribe / dispatch / commit loop) and the Kafka Producer     *)
(* wrapper (Publish with a private delivery channel), together with the    *)
(* part of the broker client they rely on (fetch position, committed       *)
(* offset, delivery reports).                                              *)
(***************************************************************************)
EXTENDS Integers, Sequences, FiniteSets, TLC

\* ------------------------------------------------------------------ bounds

\* Number of records each partition of the log holds in the consumer runs.
LogLen == 2

\* Number of times the consumer process may be restarted.
MaxRestarts == 1

\* Number of Publish calls made on the Producer, possibly concurrently.
NumCalls == 2

\* Capacity given to the client's Events() channel in the model.
MaxEvents == 1

\* Number of bits of the mantissa of a float64 in the model (53 in Go): the
\* integers up to 2^MantissaBits are the ones a float64 holds exactly.
MantissaBits == 3

\* How many ids are generated, and for how many ticks the clock is followed.
MaxIds == 2

MaxTicks == 4

\* ------------------------------------------------------------ the log

\* Topics of the configuration (topics map of the Kafka configuration).
Topics == {"order_created", "inventory_reserved"}

\* One partition per topic; a record is named by its partition and offset.
Partitions == {1, 2}

TopicOf(p) == IF p = 1 THEN "order_created" ELSE "inventory_reserved"

PartitionOf(t) == CHOOSE p \in Partitions : TopicOf(p) = t

\* The Publish calls.
Calls == 1..NumCalls

Records == [p : Partitions, off : 0..(LogLen - 1)]

\* The value of msg while the loop holds no record.
NoMsg == [p |-> 0, off |-> 0]

VARIABLES
    \* --- broker state, which survives a restart of the consumer
    logEnd,         \* [Partitions -> Nat]: the number of records of a partition
    committed,      \* [Partitions -> Nat]: the committed cursor of the group
    \* --- Consumer
    cpc,            \* where the consumer process is
    handlers,       \* c.handlers: the topics a handler is registered for
    subscription,   \* the topics given to SubscribeTopics
    cancelled,      \* the ctx of Start is done
    msg,            \* the record the iteration in progress holds
    position,       \* the client's in-memory fetch position of every partition
    deadlinePassed, \* the 30 s timer of processCtx has fired
    \* --- history of the consumer, for the properties
    succeeded,      \* the records a handler has returned nil on (any run)
    failedRun,      \* the records a handler returned an error on, this run
    restarts,       \* the number of restarts so far
    okRun,          \* processMessage has returned nil, in the last run of the loop
    prevFailed,     \* the records whose handler failed in the run before this one
    commitFailed,   \* a CommitMessage has failed, this run
    preLoop,        \* the committed cursor as it was when Start was last entered
    inflight,       \* the records a handler invocation is in progress on
    \* --- the process owning the Consumer (main)
    mpc,            \* "setup", "wait" (in its select), "cancelled", "closed", "exited"
    errChan,        \* the error channel of main (capacity 1)
    \* --- Producer, per Publish call
    ppc,            \* where the call is: "idle", "wait" (in the select), "returned"
    pres,           \* what Publish returned
    pctx,           \* the caller's ctx is done (deadline or cancellation)
    ptopic,         \* the topic of the call's message
    chanBuf,        \* the content of the call's deliveryChan (capacity 1)
    chanClosed,     \* the deferred close(deliveryChan) has run
    outcome,        \* what the broker did with the message: "none", "queued", "ack", "err"
    reported,       \* the client has emitted the message's delivery report
    \* --- Producer, per process
    events,         \* the number of events waiting in p.producer.Events()
    ppanicked,      \* the producer's process has panicked
    pclose,         \* Producer.Close: "open", "flushing", "flushed", "closed"
    lost,           \* what Flush returned: the messages still outstanding
    \* --- pkg/events and the decoding of the handlers
    ev,             \* the envelope made by NewEvent
    text,           \* the bytes at hand: Marshal(ev), possibly damaged since
    dec,            \* what UnmarshalEvent returned for text
    hres,           \* what HandleOrderCreated did with a record of value text
    \* --- generateEventID
    now,            \* the clock of the process: what time.Now() returns, in ns
    ids             \* the ids generateEventID has returned, in order

\* The variables of the owning process, and the history of the run.
mvars == <<mpc, errChan>>

hist == <<inflight, preLoop, okRun, commitFailed, prevFailed>>

cvars == <<logEnd, committed, cpc, handlers, subscription, cancelled, msg,
           position, deadlinePassed, succeeded, failedRun, restarts, mvars, hist>>

\* The variables of Producer.Close.
closeVars == <<pclose, lost>>

\* The variables of the envelope codec.
codecVars == <<ev, text, dec, hres>>

\* The variables of generateEventID.
idVars == <<now, ids>>

\* The variables no action of the Consumer or of Publish writes.
others == <<closeVars, codecVars, idVars>>

\* The variables of the Publish calls and of the client they share.
pcalls == <<ppc, pres, pctx, ptopic, chanBuf, chanClosed, outcome, reported,
            events, ppanicked>>

pvars == <<ppc, pres, pctx, ptopic, chanBuf, chanClosed, outcome, reported,
           events, ppanicked, others>>

vars == <<cvars, pvars>>

\* The variables of the consumer process and of its consumer group.
cstate == <<committed, cpc, handlers, subscription, cancelled, msg, position,
            deadlinePassed, succeeded, failedRun, restarts, mvars, hist, others>>

\* The states of the consumer process in which Start is executing.
InLoop == {"select", "poll", "handler", "commit"}

\* ------------------------------------------------------------- Consumer

\* NewConsumer: an empty registry, nothing subscribed; enable.auto.commit is
\* false, so the committed cursor is written by CommitMessage alone.
NewConsumer ==
    /\ cpc' = "created"
    /\ handlers' = {}
    /\ subscription' = {}
    /\ cancelled' = FALSE
    /\ msg' = NoMsg
    /\ position' = [p \in Partitions |-> 0]
    /\ deadlinePassed' = FALSE
    /\ failedRun' = {}
    /\ mpc' = "setup"
    /\ errChan' = <<>>
    /\ inflight' = {}
    /\ commitFailed' = FALSE
    /\ prevFailed' = failedRun
    /\ UNCHANGED <<preLoop, okRun>>

InitConsumer ==
    /\ cpc = "created"
    /\ handlers = {}
    /\ subscription = {}
    /\ cancelled = FALSE
    /\ msg = NoMsg
    /\ position = [p \in Partitions |-> 0]
    /\ deadlinePassed = FALSE
    /\ succeeded = {}
    /\ failedRun = {}
    /\ restarts = 0
    /\ committed = [p \in Partitions |-> 0]
    /\ mpc = "setup"
    /\ errChan = <<>>
    /\ inflight = {}
    /\ preLoop = [p \in Partitions |-> 0]
    /\ okRun = FALSE
    /\ commitFailed = FALSE
    /\ prevFailed = {}

\* As RegisterHandler, callable while the loop runs.
RegisterHandlerAnytime(t) ==
    /\ cpc \in InLoop \cup {"created", "subscribed"}
    /\ t \notin handlers
    /\ handlers' = handlers \cup {t}
    /\ UNCHANGED <<pvars, mvars, hist, logEnd, committed, cpc, subscription,
                   cancelled, msg, position, deadlinePassed, succeeded,
                   failedRun, restarts>>

\* RegisterHandler(topic, handler): c.handlers[topic] = handler. The owning
\* processes register their handlers before Subscribe and before Start.
RegisterHandler(t) ==
    /\ cpc = "created"
    /\ t \notin handlers
    /\ handlers' = handlers \cup {t}
    /\ UNCHANGED <<pvars, mvars, hist, logEnd, committed, cpc, subscription,
                   cancelled, msg, position, deadlinePassed, succeeded,
                   failedRun, restarts>>

\* As Subscribe, with the error of SubscribeTopics not looked at.
SubscribeIgnoreErr(ts, accepted) ==
    /\ cpc = "created"
    /\ subscription' = IF ts # {} /\ accepted THEN ts ELSE subscription
    /\ cpc' = "subscribed"
    /\ mpc' = "wait"
    /\ UNCHANGED <<pvars, errChan, hist, logEnd, committed, handlers, cancelled,
                   msg, position, deadlinePassed, succeeded, failedRun, restarts>>

\* Subscribe(topics): SubscribeTopics refuses an empty list and may refuse any
\* other; the owning process ends on the error (logger.Fatal). After a
\* successful Subscribe the process makes the context and the error channel,
\* starts the goroutine of Start and waits in its select.
Subscribe(ts, accepted) ==
    /\ cpc = "created"
    /\ IF ts # {} /\ accepted
       THEN /\ subscription' = ts
            /\ cpc' = "subscribed"
            /\ mpc' = "wait"
       ELSE /\ subscription' = subscription
            /\ cpc' = "fatal"
            /\ mpc' = "exited"
    /\ UNCHANGED <<pvars, errChan, hist, logEnd, committed, handlers, cancelled,
                   msg, position, deadlinePassed, succeeded, failedRun, restarts>>

\* As Start, with fetching begun at the end of the log whatever is committed.
StartAtEnd ==
    /\ cpc = "subscribed"
    /\ cpc' = "select"
    /\ position' = logEnd
    /\ preLoop' = committed
    /\ okRun' = FALSE
    /\ UNCHANGED <<pvars, mvars, inflight, commitFailed, prevFailed, logEnd, committed,
                   handlers, subscription, cancelled, msg, deadlinePassed,
                   succeeded, failedRun, restarts>>

\* As Start, with fetching begun at the earliest offset whatever is committed.
StartAtEarliest ==
    /\ cpc = "subscribed"
    /\ cpc' = "select"
    /\ position' = [p \in Partitions |-> 0]
    /\ preLoop' = committed
    /\ okRun' = FALSE
    /\ UNCHANGED <<pvars, mvars, inflight, commitFailed, prevFailed, logEnd, committed,
                   handlers, subscription, cancelled, msg, deadlinePassed,
                   succeeded, failedRun, restarts>>

\* Start is entered: the group's committed offsets are where fetching begins
\* (auto.offset.reset = earliest when nothing is committed).
Start ==
    /\ cpc = "subscribed"
    /\ cpc' = "select"
    /\ position' = committed
    /\ preLoop' = committed
    /\ okRun' = FALSE
    /\ UNCHANGED <<pvars, mvars, inflight, commitFailed, prevFailed, logEnd, committed,
                   handlers, subscription, cancelled, msg, deadlinePassed,
                   succeeded, failedRun, restarts>>

\* What the select of the owning process can receive from.
MainEvents == {"quit", "errChan"}

\* The select of the owning process takes the signal or an error of errChan,
\* and cancel() is called on the context given to Start.
Cancel ==
    /\ mpc = "wait"
    /\ cpc \in InLoop \cup {"subscribed"}
    /\ ~cancelled
    /\ \E src \in MainEvents :
          /\ src = "errChan" => errChan # <<>>
          /\ errChan' = IF src = "errChan" THEN Tail(errChan) ELSE errChan
    /\ cancelled' = TRUE
    /\ mpc' = "cancelled"
    /\ UNCHANGED <<pvars, hist, logEnd, committed, cpc, handlers, subscription,
                   msg, position, deadlinePassed, succeeded, failedRun, restarts>>

\* What Start returns: ctx.Err() of a context made by context.WithCancel.
StartResult == "context.Canceled"

\* As ForwardsToErrChan, with every non-nil result forwarded.
ForwardsEveryError(err) == err # "nil"

\* The goroutine around Start: err != nil && err != context.Canceled.
ForwardsToErrChan(err) == err # "nil" /\ err # "context.Canceled"

\* The select at the head of the loop: ctx.Done() is taken when it is ready,
\* the default branch (ReadMessage) only when it is not. On ctx.Done() Start
\* returns ctx.Err() and the goroutine around it decides about errChan.
Select ==
    /\ cpc = "select"
    /\ cpc' = IF cancelled THEN "returned" ELSE "poll"
    /\ errChan' = IF cancelled /\ ForwardsToErrChan(StartResult)
                  THEN Append(errChan, StartResult) ELSE errChan
    /\ msg' = NoMsg
    /\ deadlinePassed' = FALSE
    /\ UNCHANGED <<pvars, mpc, hist, logEnd, committed, handlers, subscription,
                   cancelled, position, succeeded, failedRun, restarts>>

\* The kinds of result of ReadMessage(100 ms) that carry no record: the
\* timeout (also what an empty poll is), another kafka.Error, and an error
\* value whose dynamic type is not kafka.Error.
PollErrors == {"ErrTimedOut", "kafka.Error", "error"}

\* ReadMessage returned (nil, err). The type assertion err.(kafka.Error) has
\* no comma-ok form: it panics on an error of any other type, and the panic
\* of a goroutine ends the process.
PollError(e) ==
    /\ cpc = "poll"
    /\ cpc' = IF e = "error" THEN "panicked" ELSE "select"
    /\ mpc' = IF e = "error" THEN "exited" ELSE mpc
    /\ UNCHANGED <<pvars, errChan, hist, logEnd, committed, handlers, subscription,
                   cancelled, msg, position, deadlinePassed, succeeded,
                   failedRun, restarts>>

\* As PollMessage, with a missing handler reported as an error of the record.
PollMessageNoHandlerErr(p) ==
    /\ cpc = "poll"
    /\ TopicOf(p) \in subscription
    /\ position[p] < logEnd[p]
    /\ msg' = [p |-> p, off |-> position[p]]
    /\ position' = [position EXCEPT ![p] = @ + 1]
    /\ cpc' = IF TopicOf(p) \in handlers THEN "handler" ELSE "select"
    /\ inflight' = IF TopicOf(p) \in handlers THEN {msg'} ELSE {}
    /\ okRun' = (okRun \/ TopicOf(p) \notin handlers)
    /\ UNCHANGED <<pvars, mvars, preLoop, commitFailed, prevFailed, logEnd, committed,
                   handlers, subscription, cancelled, deadlinePassed, succeeded,
                   failedRun, restarts>>

\* As PollMessage, with the handler run in a goroutine of its own.
PollMessageAsync(p) ==
    /\ cpc = "poll"
    /\ TopicOf(p) \in subscription
    /\ position[p] < logEnd[p]
    /\ msg' = [p |-> p, off |-> position[p]]
    /\ position' = [position EXCEPT ![p] = @ + 1]
    /\ cpc' = IF TopicOf(p) \in handlers THEN "select" ELSE "commit"
    /\ inflight' = IF TopicOf(p) \in handlers THEN inflight \cup {msg'} ELSE inflight
    /\ okRun' = (okRun \/ TopicOf(p) \notin handlers)
    /\ UNCHANGED <<pvars, mvars, preLoop, commitFailed, prevFailed, logEnd, committed,
                   handlers, subscription, cancelled, deadlinePassed, succeeded,
                   failedRun, restarts>>

\* ReadMessage returned the next record of partition p, and processMessage
\* looks its handler up: without one it returns nil at once, with one the
\* handler is invoked under processCtx.
PollMessage(p) ==
    /\ cpc = "poll"
    /\ TopicOf(p) \in subscription
    /\ position[p] < logEnd[p]
    /\ msg' = [p |-> p, off |-> position[p]]
    /\ position' = [position EXCEPT ![p] = @ + 1]
    /\ cpc' = IF TopicOf(p) \in handlers THEN "handler" ELSE "commit"
    /\ inflight' = IF TopicOf(p) \in handlers THEN {msg'} ELSE {}
    /\ okRun' = (okRun \/ TopicOf(p) \notin handlers)
    /\ UNCHANGED <<pvars, mvars, preLoop, commitFailed, prevFailed, logEnd, committed,
                   handlers, subscription, cancelled, deadlinePassed, succeeded,
                   failedRun, restarts>>

\* The 30 s of context.WithTimeout pass while the handler is running.
DeadlineFires ==
    /\ cpc = "handler"
    /\ ~deadlinePassed
    /\ deadlinePassed' = TRUE
    /\ UNCHANGED <<pvars, mvars, hist, logEnd, committed, cpc, handlers,
                   subscription, cancelled, msg, position, succeeded, failedRun,
                   restarts>>

\* As HandlerReturn, with the error of the handler ignored.
HandlerReturnIgnoreErr(ok) ==
    /\ cpc = "handler"
    /\ cpc' = "commit"
    /\ succeeded' = IF ok THEN succeeded \cup {msg} ELSE succeeded
    /\ failedRun' = IF ok THEN failedRun ELSE failedRun \cup {msg}
    /\ inflight' = {}
    /\ okRun' = (okRun \/ ok)
    /\ UNCHANGED <<pvars, mvars, preLoop, commitFailed, prevFailed, logEnd, committed,
                   handlers,
                   subscription, cancelled, msg, position, deadlinePassed, restarts>>

\* As HandlerReturn, with an in-process retry: the failed record is sought
\* back to, so that the next poll returns it again.
HandlerReturnRetry(ok) ==
    /\ cpc = "handler"
    /\ IF ok
       THEN /\ cpc' = "commit"
            /\ succeeded' = succeeded \cup {msg}
            /\ failedRun' = failedRun
            /\ position' = position
       ELSE /\ cpc' = "select"
            /\ succeeded' = succeeded
            /\ failedRun' = failedRun \cup {msg}
            /\ position' = [position EXCEPT ![msg.p] = msg.off]
    /\ inflight' = {}
    /\ okRun' = (okRun \/ ok)
    /\ UNCHANGED <<pvars, mvars, preLoop, commitFailed, prevFailed, logEnd, committed,
                   handlers,
                   subscription, cancelled, msg, deadlinePassed, restarts>>

\* The handler returns. On an error processMessage wraps it and Start logs it
\* and continues; on nil Start goes on to CommitMessage. Nothing reads
\* processCtx after the handler has returned.
HandlerReturn(ok) ==
    /\ cpc = "handler"
    /\ IF ok
       THEN /\ cpc' = "commit"
            /\ succeeded' = succeeded \cup {msg}
            /\ failedRun' = failedRun
       ELSE /\ cpc' = "select"
            /\ succeeded' = succeeded
            /\ failedRun' = failedRun \cup {msg}
    /\ inflight' = {}
    /\ okRun' = (okRun \/ ok)
    /\ UNCHANGED <<pvars, mvars, preLoop, commitFailed, prevFailed, logEnd, committed,
                   handlers,
                   subscription, cancelled, msg, position, deadlinePassed, restarts>>

\* As CommitMessage, with the record's own offset stored as the cursor.
CommitMessageOwnOffset(ok) ==
    /\ cpc = "commit"
    /\ committed' = IF ok THEN [committed EXCEPT ![msg.p] = msg.off]
                          ELSE committed
    /\ commitFailed' = (commitFailed \/ ~ok)
    /\ cpc' = "select"
    /\ UNCHANGED <<pvars, mvars, inflight, preLoop, okRun, prevFailed, logEnd, handlers,
                   subscription, cancelled, msg, position, deadlinePassed,
                   succeeded, failedRun, restarts>>

\* As CommitMessage, with a failed commit returned from Start as an error.
CommitMessageFatal(ok) ==
    /\ cpc = "commit"
    /\ committed' = IF ok THEN [committed EXCEPT ![msg.p] = msg.off + 1]
                          ELSE committed
    /\ commitFailed' = (commitFailed \/ ~ok)
    /\ cpc' = IF ok THEN "select" ELSE "returned"
    /\ UNCHANGED <<pvars, mvars, inflight, preLoop, okRun, prevFailed, logEnd, handlers,
                   subscription, cancelled, msg, position, deadlinePassed,
                   succeeded, failedRun, restarts>>

\* CommitMessage(msg) stores msg's offset + 1 as the committed cursor of its
\* partition; a commit that fails is logged. Either way the loop continues.
CommitMessage(ok) ==
    /\ cpc = "commit"
    /\ committed' = IF ok THEN [committed EXCEPT ![msg.p] = msg.off + 1]
                          ELSE committed
    /\ commitFailed' = (commitFailed \/ ~ok)
    /\ cpc' = "select"
    /\ UNCHANGED <<pvars, mvars, inflight, preLoop, okRun, prevFailed, logEnd, handlers,
                   subscription, cancelled, msg, position, deadlinePassed,
                   succeeded, failedRun, restarts>>

\* The owning process returns from main after cancel(): its deferred calls
\* run, consumer.Close() among them, without waiting for the goroutine of
\* Start.
CloseConsumer ==
    /\ mpc = "cancelled"
    /\ mpc' = "closed"
    /\ UNCHANGED <<pvars, errChan, hist, logEnd, committed, cpc, handlers,
                   subscription, cancelled, msg, position, deadlinePassed,
                   succeeded, failedRun, restarts>>

\* main has returned: the process ends, and the goroutine of Start with it.
MainExit ==
    /\ mpc = "closed"
    /\ mpc' = "exited"
    /\ cpc' = IF cpc \in InLoop \cup {"subscribed"} THEN "killed" ELSE cpc
    /\ inflight' = {}
    /\ UNCHANGED <<pvars, errChan, preLoop, okRun, commitFailed, prevFailed, logEnd,
                   committed,
                   handlers, subscription, cancelled, msg, position,
                   deadlinePassed, succeeded, failedRun, restarts>>

\* The consumer process ends (a crash, a kill or its return after Start) and
\* is started again: a new Consumer, the broker's state kept.
Restart ==
    /\ cpc # "created"
    /\ restarts < MaxRestarts
    /\ restarts' = restarts + 1
    /\ NewConsumer
    /\ UNCHANGED <<pvars, logEnd, committed, succeeded>>

ConsumerNext ==
    \/ \E t \in Topics : RegisterHandler(t)
    \/ \E ts \in SUBSET Topics, accepted \in BOOLEAN : Subscribe(ts, accepted)
    \/ Start
    \/ Cancel
    \/ Select
    \/ \E e \in PollErrors : PollError(e)
    \/ \E p \in Partitions : PollMessage(p)
    \/ DeadlineFires
    \/ \E ok \in BOOLEAN : HandlerReturn(ok)
    \/ \E ok \in BOOLEAN : CommitMessage(ok)
    \/ CloseConsumer
    \/ MainExit
    \/ Restart

\* ------------------------------------------------------------- pkg/events

\* The event types of the enumeration.
EventTypes == {"order.created", "order.confirmed", "inventory.reserved",
               "inventory.released", "notification.sent"}

\* The payload structs the services use, named by their Go type.
Shapes == {"OrderCreatedEvent", "InventoryReservedEvent"}

\* The order ids and the item quantities of the payloads: a small quantity,
\* the largest integer below which a float64 holds every integer, and the one
\* after it.
OrderIds == {"order-1", "order-2"}

Pow2(n) == 2 ^ n

Quantities == {2, Pow2(MantissaBits), Pow2(MantissaBits) + 1}

\* A payload: its struct type, the order id and the quantity it carries.
Payloads == [shape : Shapes, orderId : OrderIds, qty : Quantities]

\* The zero value of a payload struct, and the nil of Event.Data.
ZeroPayload(shape) == [shape |-> shape, orderId |-> "", qty |-> 0]

NilData == [shape |-> "nil", orderId |-> "", qty |-> 0]

\* The ids generateEventID gives in the model.
EventIds == {"20250101120000-aaaaaaaa"}

\* The absence of a value: no bytes yet, nothing decoded, nothing handled.
None == [none |-> TRUE]

\* NewEvent(eventType, data), with the id that generateEventID returned.
NewEvent(id, eventType, data) == [id |-> id, type |-> eventType, data |-> data]

\* The members of the JSON object of an Event that the model follows.
Members == {"id", "type", "data"}

\* Event.Marshal: json.Marshal(e). The text is a well-formed JSON object with
\* every member, the integers of the payload written with all their digits.
Marshal(e) ==
    [ok |-> TRUE, members |-> Members, id |-> e.id, type |-> e.type, data |-> e.data]

\* The float64 nearest to the integer n (ties to even), as an integer.
ToFloat64(n) ==
    LET Exp(e) == Pow2(MantissaBits + e)
        e == CHOOSE k \in 0..MantissaBits : n < Exp(k) /\ (k = 0 \/ n >= Exp(k - 1))
        unit == Pow2(e)
        q == n \div unit
        rest == n % unit
    IN  IF e = 0 THEN n
        ELSE IF 2 * rest > unit \/ (2 * rest = unit /\ q % 2 = 1)
             THEN (q + 1) * unit
             ELSE q * unit

\* A JSON value decoded into interface{}: objects become maps and every
\* number becomes a float64.
Generic(d) == [d EXCEPT !.qty = ToFloat64(d.qty)]

\* json.Unmarshal(data, &event) for an Event: text that is not well-formed JSON
\* is an error; a member that is missing, or whose key matches no field,
\* leaves its field at the zero value without an error.
Unmarshal(t) ==
    IF ~t.ok
    THEN [err |-> TRUE, event |-> NewEvent("", "", NilData)]
    ELSE [err |-> FALSE,
          event |-> NewEvent(IF "id" \in t.members THEN t.id ELSE "",
                             IF "type" \in t.members THEN t.type ELSE "",
                             IF "data" \in t.members THEN Generic(t.data) ELSE NilData)]

\* UnmarshalEvent: (nil, err) on an error of json.Unmarshal, (&event, nil)
\* otherwise.
UnmarshalEvent(t) ==
    LET r == Unmarshal(t)
    IN  IF r.err THEN [err |-> TRUE, isNil |-> TRUE, event |-> r.event]
                 ELSE [err |-> FALSE, isNil |-> FALSE, event |-> r.event]

\* json.Marshal(event.Data) followed by json.Unmarshal into the struct of the
\* given type: the members of that struct are filled from the members of the
\* same name, other members are ignored, and a struct none of whose members
\* is present (another payload, or null) stays at its zero value. No error
\* arises for the payloads of the model.
DecodeInto(shape, d) ==
    IF d.shape = shape
    THEN [shape |-> shape, orderId |-> d.orderId, qty |-> d.qty]
    ELSE ZeroPayload(shape)

\* HandleOrderCreated on a record of value t, up to its Publish: it returns
\* the error of the first json.Unmarshal, and otherwise decodes event.Data
\* into an OrderCreatedEvent, whatever event.Type is, and publishes the
\* InventoryReservedEvent of that order under the order's id.
HandleOrderCreated(t) ==
    LET r == Unmarshal(t)
        oc == DecodeInto("OrderCreatedEvent", r.event.data)
    IN  IF r.err
        THEN [err |-> TRUE, published |-> FALSE, key |-> "", payload |-> NilData]
        ELSE [err |-> FALSE, published |-> TRUE, key |-> oc.orderId,
              payload |-> [shape |-> "InventoryReservedEvent",
                           orderId |-> oc.orderId, qty |-> oc.qty]]

\* Nothing has been encoded.
InitCodec ==
    /\ ev = None
    /\ text = None
    /\ dec = None
    /\ hres = None

\* An envelope of any type with any payload is at hand.
InitEvents ==
    /\ ev \in {NewEvent(id, t, d) : id \in EventIds, t \in EventTypes, d \in Payloads}
    /\ text = None
    /\ dec = None
    /\ hres = None

\* The envelope is serialized.
MarshalEvent ==
    /\ text = None
    /\ text' = Marshal(ev)
    /\ UNCHANGED <<cvars, pcalls, closeVars, idVars, ev, dec, hres>>

\* The bytes are cut short: what is left is no JSON text.
Truncate ==
    /\ text # None /\ text.ok
    /\ dec = None /\ hres = None
    /\ text' = [text EXCEPT !.ok = FALSE]
    /\ UNCHANGED <<cvars, pcalls, closeVars, idVars, ev, dec, hres>>

\* A byte in the key of member f is changed: the text is still JSON, and the
\* member no longer belongs to any field of Event.
CorruptKey(f) ==
    /\ text # None /\ text.ok
    /\ dec = None /\ hres = None
    /\ f \in text.members
    /\ text' = [text EXCEPT !.members = @ \ {f}]
    /\ UNCHANGED <<cvars, pcalls, closeVars, idVars, ev, dec, hres>>

\* The bytes are given to UnmarshalEvent.
DecodeText ==
    /\ text # None
    /\ dec = None
    /\ dec' = UnmarshalEvent(text)
    /\ UNCHANGED <<cvars, pcalls, closeVars, idVars, ev, text, hres>>

\* A record with these bytes is given to HandleOrderCreated.
HandleText ==
    /\ text # None
    /\ hres = None
    /\ hres' = HandleOrderCreated(text)
    /\ UNCHANGED <<cvars, pcalls, closeVars, idVars, ev, text, dec>>

CodecNext ==
    \/ MarshalEvent
    \/ Truncate
    \/ \E f \in Members : CorruptKey(f)
    \/ DecodeText
    \/ HandleText

\* --------------------------------------------------------- generateEventID
\* len(letters), the length of the suffix, and the resolution of the
\* timestamp's layout "20060102150405" in the unit of UnixNano.
NumLetters == 62

SuffixLen == 8

NanosPerSecond == 1000000000

\* The clock when the process starts: two ticks before a second ends.
StartTime == NanosPerSecond - 2

\* By how much the clock has moved on between two readings that follow each
\* other: not at all when both fall within one tick of the clock.
Advances == {0, 1}

\* The readings of one call: one for the timestamp, one for each letter.
Reads == 1 .. (SuffixLen + 1)

RECURSIVE Elapsed(_, _)
Elapsed(steps, i) == IF i = 0 THEN 0 ELSE steps[i] + Elapsed(steps, i - 1)

\* time.Now() at the i-th reading of a call that starts at t.
Reading(t, steps, i) == t + Elapsed(steps, i)

\* letters[time.Now().UnixNano() % len(letters)]: the letters are pairwise
\* different, so a letter is identified by its index.
Letter(t) == t % NumLetters

\* randomString(n), its i-th letter made from reading i + 1 of the call.
randomString(n, t, steps) == [i \in 1 .. n |-> Letter(Reading(t, steps, i + 1))]

\* time.Now().Format("20060102150405"): the second the reading falls in.
Format(t) == t \div NanosPerSecond

generateEventID(t, steps) ==
    [stamp |-> Format(Reading(t, steps, 1)),
     suffix |-> randomString(SuffixLen, t, steps)]

InitIds ==
    /\ now = StartTime
    /\ ids = <<>>

\* One call of generateEventID, as NewEvent makes it.
GenerateEventID ==
    /\ Len(ids) < MaxIds
    /\ \E steps \in [Reads -> Advances] :
          /\ Reading(now, steps, SuffixLen + 1) - StartTime <= MaxTicks
          /\ ids' = Append(ids, generateEventID(now, steps))
          /\ now' = Reading(now, steps, SuffixLen + 1)
    /\ UNCHANGED <<cvars, pcalls, closeVars, codecVars>>

\* Time passes between two calls.
Tick ==
    /\ now - StartTime < MaxTicks
    /\ now' = now + 1
    /\ UNCHANGED <<cvars, pcalls, closeVars, codecVars, ids>>

IdNext ==
    \/ GenerateEventID
    \/ Tick

\* ------------------------------------------------------------- Producer

InitProducer ==
    /\ ppc = [c \in Calls |-> "idle"]
    /\ pres = [c \in Calls |-> "none"]
    /\ pctx = [c \in Calls |-> FALSE]
    /\ ptopic = [c \in Calls |-> "order_created"]
    /\ chanBuf = [c \in Calls |-> "empty"]
    /\ chanClosed = [c \in Calls |-> FALSE]
    /\ outcome = [c \in Calls |-> "none"]
    /\ reported = [c \in Calls |-> FALSE]
    /\ events = 0
    /\ ppanicked = FALSE
    /\ pclose = "open"
    /\ lost = 0

\* The Publish call that HandleOrderCreated makes for record r: one call per
\* record, taken from the upper end of Calls.
HandlerCall(r) == NumCalls - r.off

\* As CtxIsDone, with processCtx made from context.Background().
CtxIsDoneDetached(c) == pctx[c]

\* The context given to call c is done. The handler is given processCtx, made
\* by context.WithTimeout(ctx, 30 s) from the context of Start, and hands it
\* to Publish: it is done as soon as that context is cancelled or the 30 s
\* have passed.
CtxIsDone(c) ==
    \/ pctx[c]
    \/ /\ cpc = "handler"
       /\ TopicOf(msg.p) = "order_created"
       /\ c = HandlerCall(msg)
       /\ (cancelled \/ deadlinePassed)

\* The caller's context of call c is cancelled or reaches its deadline.
CtxDone(c) ==
    /\ ~ppanicked
    /\ ppc[c] \in {"idle", "wait"}
    /\ ~pctx[c]
    /\ pctx' = [pctx EXCEPT ![c] = TRUE]
    /\ UNCHANGED <<cstate, ppc, pres, ptopic, chanBuf, chanClosed, outcome, reported,
                   events, ppanicked, logEnd>>

\* Publish, up to its select: deliveryChan is made with capacity 1 and the
\* message is handed to Produce with it. A hand-off that Produce refuses makes
\* Publish return at once; the deferred close runs on every return.
PublishProduce(c, t, accepted) ==
    /\ ~ppanicked
    /\ ppc[c] = "idle"
    /\ ptopic' = [ptopic EXCEPT ![c] = t]
    /\ IF accepted
       THEN /\ ppc' = [ppc EXCEPT ![c] = "wait"]
            /\ outcome' = [outcome EXCEPT ![c] = "queued"]
            /\ UNCHANGED <<pres, chanClosed>>
       ELSE /\ ppc' = [ppc EXCEPT ![c] = "returned"]
            /\ pres' = [pres EXCEPT ![c] = "produceErr"]
            /\ chanClosed' = [chanClosed EXCEPT ![c] = TRUE]
            /\ UNCHANGED outcome
    /\ UNCHANGED <<cstate, pctx, chanBuf, reported, events, ppanicked, logEnd>>

\* As PublishRecv, with a failed delivery handed to Produce once more.
PublishRecvRetry(c) ==
    /\ ~ppanicked
    /\ ppc[c] = "wait"
    /\ chanBuf[c] # "empty"
    /\ chanBuf' = [chanBuf EXCEPT ![c] = "empty"]
    /\ IF chanBuf[c] = "err"
       THEN /\ outcome' = [outcome EXCEPT ![c] = "queued"]
            /\ reported' = [reported EXCEPT ![c] = FALSE]
            /\ UNCHANGED <<pres, ppc, chanClosed>>
       ELSE /\ pres' = [pres EXCEPT ![c] = "nil"]
            /\ ppc' = [ppc EXCEPT ![c] = "returned"]
            /\ chanClosed' = [chanClosed EXCEPT ![c] = TRUE]
            /\ UNCHANGED <<outcome, reported>>
    /\ UNCHANGED <<cstate, pctx, ptopic, events, ppanicked, logEnd>>

\* As PublishRecv, with the error of the delivery report not looked at.
PublishRecvIgnoreErr(c) ==
    /\ ~ppanicked
    /\ ppc[c] = "wait"
    /\ chanBuf[c] # "empty"
    /\ pres' = [pres EXCEPT ![c] = "nil"]
    /\ ppc' = [ppc EXCEPT ![c] = "returned"]
    /\ chanBuf' = [chanBuf EXCEPT ![c] = "empty"]
    /\ chanClosed' = [chanClosed EXCEPT ![c] = TRUE]
    /\ UNCHANGED <<cstate, pctx, ptopic, outcome, reported, events, ppanicked, logEnd>>

\* As PublishRecv, with every delivery report taken for a failed delivery.
PublishRecvAnyAsErr(c) ==
    /\ ~ppanicked
    /\ ppc[c] = "wait"
    /\ chanBuf[c] # "empty"
    /\ pres' = [pres EXCEPT ![c] = "deliveryErr"]
    /\ ppc' = [ppc EXCEPT ![c] = "returned"]
    /\ chanBuf' = [chanBuf EXCEPT ![c] = "empty"]
    /\ chanClosed' = [chanClosed EXCEPT ![c] = TRUE]
    /\ UNCHANGED <<cstate, pctx, ptopic, outcome, reported, events, ppanicked, logEnd>>

\* The select of Publish takes the delivery report: a report with an error
\* gives "delivery failed: ...", any other gives nil.
PublishRecv(c) ==
    /\ ~ppanicked
    /\ ppc[c] = "wait"
    /\ chanBuf[c] # "empty"
    /\ pres' = [pres EXCEPT ![c] = IF chanBuf[c] = "err" THEN "deliveryErr" ELSE "nil"]
    /\ ppc' = [ppc EXCEPT ![c] = "returned"]
    /\ chanBuf' = [chanBuf EXCEPT ![c] = "empty"]
    /\ chanClosed' = [chanClosed EXCEPT ![c] = TRUE]
    /\ UNCHANGED <<cstate, pctx, ptopic, outcome, reported, events, ppanicked, logEnd>>

\* As PublishCtxDone, with the context's error reported as a delivery failure.
PublishCtxDoneAsDeliveryErr(c) ==
    /\ ~ppanicked
    /\ ppc[c] = "wait"
    /\ CtxIsDone(c)
    /\ pres' = [pres EXCEPT ![c] = "deliveryErr"]
    /\ ppc' = [ppc EXCEPT ![c] = "returned"]
    /\ chanClosed' = [chanClosed EXCEPT ![c] = TRUE]
    /\ UNCHANGED <<cstate, pctx, ptopic, chanBuf, outcome, reported, events, ppanicked,
                   logEnd>>

\* The select of Publish takes ctx.Done(): ctx.Err() is returned as it is. (With
\* both branches ready Go takes either.)
PublishCtxDone(c) ==
    /\ ~ppanicked
    /\ ppc[c] = "wait"
    /\ CtxIsDone(c)
    /\ pres' = [pres EXCEPT ![c] = "ctxErr"]
    /\ ppc' = [ppc EXCEPT ![c] = "returned"]
    /\ chanClosed' = [chanClosed EXCEPT ![c] = TRUE]
    /\ UNCHANGED <<cstate, pctx, ptopic, chanBuf, outcome, reported, events, ppanicked,
                   logEnd>>

\* As BrokerAck, with the message appended twice (a retry after a lost ack).
BrokerAckTwice(c) ==
    /\ ~ppanicked
    /\ outcome[c] = "queued"
    /\ outcome' = [outcome EXCEPT ![c] = "ack"]
    /\ logEnd' = [logEnd EXCEPT ![PartitionOf(ptopic[c])] = @ + 2]
    /\ UNCHANGED <<cstate, ppc, pres, pctx, ptopic, chanBuf, chanClosed, reported,
                   events, ppanicked>>

\* The broker persists the message of call c (acks = all): it is appended to
\* the partition of its topic.
BrokerAck(c) ==
    /\ ~ppanicked
    /\ outcome[c] = "queued"
    /\ outcome' = [outcome EXCEPT ![c] = "ack"]
    /\ logEnd' = [logEnd EXCEPT ![PartitionOf(ptopic[c])] = @ + 1]
    /\ UNCHANGED <<cstate, ppc, pres, pctx, ptopic, chanBuf, chanClosed, reported,
                   events, ppanicked>>

\* The broker rejects the message of call c, or the client gives it up.
BrokerFail(c) ==
    /\ ~ppanicked
    /\ outcome[c] = "queued"
    /\ outcome' = [outcome EXCEPT ![c] = "err"]
    /\ UNCHANGED <<cstate, ppc, pres, pctx, ptopic, chanBuf, chanClosed, reported,
                   events, ppanicked, logEnd>>

\* As DeliveryReport, with one delivery channel shared by the calls: the
\* report reaches whichever call is receiving.
DeliveryReportShared(c) ==
    /\ ~ppanicked
    /\ outcome[c] \in {"ack", "err"}
    /\ ~reported[c]
    /\ reported' = [reported EXCEPT ![c] = TRUE]
    /\ \E d \in Calls :
          IF chanClosed[d]
          THEN /\ ppanicked' = TRUE
               /\ UNCHANGED chanBuf
          ELSE /\ chanBuf' = [chanBuf EXCEPT ![d] = outcome[c]]
               /\ UNCHANGED ppanicked
    /\ UNCHANGED <<cstate, ppc, pres, pctx, ptopic, chanClosed, outcome, events, logEnd>>

\* The client emits the delivery report of call c's message. A message
\* produced with a delivery channel has its report sent on that channel, not
\* on Events(); a send on a closed channel panics.
DeliveryReport(c) ==
    /\ ~ppanicked
    /\ outcome[c] \in {"ack", "err"}
    /\ ~reported[c]
    /\ reported' = [reported EXCEPT ![c] = TRUE]
    /\ IF chanClosed[c]
       THEN /\ ppanicked' = TRUE
            /\ UNCHANGED chanBuf
       ELSE /\ chanBuf' = [chanBuf EXCEPT ![c] = outcome[c]]
            /\ UNCHANGED ppanicked
    /\ UNCHANGED <<cstate, ppc, pres, pctx, ptopic, chanClosed, outcome, events, logEnd>>

\* The client puts an event of its own (a kafka.Error) on Events().
ClientError ==
    /\ ~ppanicked
    /\ events < MaxEvents
    /\ events' = events + 1
    /\ UNCHANGED <<cstate, ppc, pres, pctx, ptopic, chanBuf, chanClosed, outcome,
                   reported, ppanicked, logEnd>>

\* handleDeliveryReports: the next event of Events() is taken and logged.
HandleDeliveryReports ==
    /\ ~ppanicked
    /\ events > 0
    /\ events' = events - 1
    /\ UNCHANGED <<cstate, ppc, pres, pctx, ptopic, chanBuf, chanClosed, outcome,
                   reported, ppanicked, logEnd>>

ProducerNext ==
    \/ \E c \in Calls : CtxDone(c)
    \/ \E c \in Calls, t \in Topics, accepted \in BOOLEAN : PublishProduce(c, t, accepted)
    \/ \E c \in Calls : PublishRecv(c)
    \/ \E c \in Calls : PublishCtxDone(c)
    \/ \E c \in Calls : BrokerAck(c)
    \/ \E c \in Calls : BrokerFail(c)
    \/ \E c \in Calls : DeliveryReport(c)
    \/ ClientError
    \/ HandleDeliveryReports

\* The consumer runs: the log holds LogLen records in every partition.
Init ==
    /\ InitConsumer
    /\ InitProducer
    /\ InitCodec
    /\ InitIds
    /\ logEnd = [p \in Partitions |-> LogLen]

Next == ConsumerNext

Spec == Init /\ [][Next]_vars

\* The producer runs: the log starts empty and grows with the broker's acks.
InitPublish ==
    /\ InitConsumer
    /\ InitProducer
    /\ InitCodec
    /\ InitIds
    /\ logEnd = [p \in Partitions |-> 0]

PublishSpec == InitPublish /\ [][ProducerNext]_vars

\* The envelope codec alone: an envelope is encoded, its bytes may be damaged,
\* and they are decoded and handled.
InitCodecRun ==
    /\ InitConsumer
    /\ InitProducer
    /\ InitEvents
    /\ InitIds
    /\ logEnd = [p \in Partitions |-> 0]

CodecSpec == InitCodecRun /\ [][CodecNext]_vars

\* The id generator alone, called MaxIds times while the clock runs.
IdSpec == InitPublish /\ [][IdNext]_vars

\* What Len() counts for Flush: the messages the client has not reported yet
\* and the events waiting in Events().
Outstanding ==
    Cardinality({c \in Calls : outcome[c] = "queued" \/
                                (outcome[c] \in {"ack", "err"} /\ ~reported[c])})
        + events

\* Producer.Close is called and enters Flush(15 s).
ProducerFlush ==
    /\ ~ppanicked
    /\ pclose = "open"
    /\ pclose' = "flushing"
    /\ UNCHANGED <<cvars, pcalls, lost, codecVars, idVars>>

\* Flush returns: when nothing is outstanding, or when its 15 s have passed,
\* with the number of messages and events still outstanding; Close logs a
\* warning when that number is positive.
FlushReturn ==
    /\ ~ppanicked
    /\ pclose = "flushing"
    /\ lost' = Outstanding
    /\ pclose' = "flushed"
    /\ UNCHANGED <<cvars, pcalls, codecVars, idVars>>

\* Close closes the handle of the client, whatever Flush returned.
ProducerCloseHandle ==
    /\ ~ppanicked
    /\ pclose = "flushed"
    /\ pclose' = "closed"
    /\ UNCHANGED <<cvars, pcalls, lost, codecVars, idVars>>

\* The Producer with its Close: the calls go on until the handle is closed,
\* after which a call still waiting can only see its context end.
CloseNext ==
    \/ pclose # "closed" /\ ProducerNext
    \/ pclose = "closed" /\ \E c \in Calls : CtxDone(c)
    \/ pclose = "closed" /\ \E c \in Calls : PublishCtxDone(c)
    \/ ProducerFlush
    \/ FlushReturn
    \/ ProducerCloseHandle

\* Flush and Close return: the goroutine calling Close is scheduled, and
\* Flush is bounded by its timeout.
CloseFairness == WF_vars(FlushReturn) /\ WF_vars(ProducerCloseHandle)

CloseSpec == InitPublish /\ [][CloseNext]_vars /\ CloseFairness

\* The loop without restarts, with the scheduling the code relies on: the
\* goroutine of Start is scheduled, ReadMessage returns within its 100 ms,
\* the running handler returns, and CommitMessage returns.
LoopNext ==
    \/ \E t \in Topics : RegisterHandler(t)
    \/ \E ts \in SUBSET Topics, accepted \in BOOLEAN : Subscribe(ts, accepted)
    \/ Start
    \/ Cancel
    \/ Select
    \/ \E e \in PollErrors : PollError(e)
    \/ \E p \in Partitions : PollMessage(p)
    \/ DeadlineFires
    \/ \E ok \in BOOLEAN : HandlerReturn(ok)
    \/ \E ok \in BOOLEAN : CommitMessage(ok)

LoopFairness ==
    /\ WF_vars(Start)
    /\ WF_vars(Select)
    /\ WF_vars((\E e \in PollErrors : PollError(e)) \/ (\E p \in Partitions : PollMessage(p)))
    /\ WF_vars(\E ok \in BOOLEAN : HandlerReturn(ok))
    /\ WF_vars(\E ok \in BOOLEAN : CommitMessage(ok))

LiveSpec == Init /\ [][LoopNext]_vars /\ LoopFairness

\* --------------------------------------------- the services, end to end

\* The Publish call of CreateOrder in the order service.
OrderCall == 1

\* CreateOrder publishes the order.created envelope under the order's id, with
\* the context of the HTTP request.
CreateOrderPublish(accepted) == PublishProduce(OrderCall, "order_created", accepted)

\* HandleOrderCreated fails before its Publish: the record does not decode.
HandlerDecodeError ==
    /\ cpc = "handler"
    /\ TopicOf(msg.p) = "order_created"
    /\ HandlerCall(msg) \in Calls
    /\ ppc[HandlerCall(msg)] = "idle"
    /\ HandlerReturn(FALSE)

\* HandleOrderCreated publishes the inventory.reserved envelope with the
\* context it was given.
HandlerPublish(accepted) ==
    /\ cpc = "handler"
    /\ TopicOf(msg.p) = "order_created"
    /\ HandlerCall(msg) \in Calls
    /\ PublishProduce(HandlerCall(msg), "inventory_reserved", accepted)

\* HandleOrderCreated returns what its Publish returned.
HandlerPublishReturn ==
    /\ cpc = "handler"
    /\ TopicOf(msg.p) = "order_created"
    /\ HandlerCall(msg) \in Calls
    /\ ppc[HandlerCall(msg)] = "returned"
    /\ HandlerReturn(pres[HandlerCall(msg)] = "nil")

\* The main of the inventory service subscribes to order_created, after it
\* has registered HandleOrderCreated for it.
InventorySubscribe(accepted) ==
    /\ "order_created" \in handlers
    /\ Subscribe({"order_created"}, accepted)

\* The order service publishes and the inventory service consumes: its main
\* registers HandleOrderCreated on order_created and subscribes to that topic.
\* A panic at a delivery report ends the process it happens in.
ServiceNext ==
    \/ CreateOrderPublish(TRUE)
    \/ CreateOrderPublish(FALSE)
    \/ CtxDone(OrderCall)
    \/ \E c \in Calls : PublishRecv(c)
    \/ \E c \in Calls : PublishCtxDone(c)
    \/ \E c \in Calls : BrokerAck(c)
    \/ \E c \in Calls : BrokerFail(c)
    \/ \E c \in Calls : DeliveryReport(c)
    \/ RegisterHandler("order_created")
    \/ \E accepted \in BOOLEAN : InventorySubscribe(accepted)
    \/ Start
    \/ Cancel
    \/ Select
    \/ \E e \in PollErrors : PollError(e)
    \/ \E p \in Partitions : PollMessage(p)
    \/ DeadlineFires
    \/ HandlerDecodeError
    \/ \E accepted \in BOOLEAN : HandlerPublish(accepted)
    \/ HandlerPublishReturn
    \/ \E ok \in BOOLEAN : CommitMessage(ok)

ServiceSpec == InitPublish /\ [][ServiceNext]_vars

\* The inventory service alone, on a log that holds LogLen orders.
InventoryNext ==
    \/ RegisterHandler("order_created")
    \/ \E accepted \in BOOLEAN : InventorySubscribe(accepted)
    \/ Start
    \/ Cancel
    \/ Select
    \/ \E e \in PollErrors : PollError(e)
    \/ \E p \in Partitions : PollMessage(p)
    \/ DeadlineFires
    \/ HandlerDecodeError
    \/ \E accepted \in BOOLEAN : HandlerPublish(accepted)
    \/ HandlerPublishReturn
    \/ \E ok \in BOOLEAN : CommitMessage(ok)
    \/ \E c \in Calls : PublishRecv(c)
    \/ \E c \in Calls : PublishCtxDone(c)
    \/ \E c \in Calls : BrokerAck(c)
    \/ \E c \in Calls : BrokerFail(c)
    \/ \E c \in Calls : DeliveryReport(c)

InventorySpec == Init /\ [][InventoryNext]_vars

\* The order service and the inventory service when nothing is refused, no
\* send fails, no handler fails, no context ends and no deadline passes:
\* what remains are the polls, with and without a record, and the commits.
PipelineNext ==
    \/ CreateOrderPublish(TRUE)
    \/ \E c \in Calls : BrokerAck(c)
    \/ \E c \in Calls : DeliveryReport(c)
    \/ \E c \in Calls : PublishRecv(c)
    \/ RegisterHandler("order_created")
    \/ InventorySubscribe(TRUE)
    \/ Start
    \/ Select
    \/ \E e \in PollErrors : PollError(e)
    \/ \E p \in Partitions : PollMessage(p)
    \/ HandlerPublish(TRUE)
    \/ HandlerPublishReturn
    \/ CommitMessage(TRUE)
    \/ ClientError
    \/ HandleDeliveryReports

\* Fair scheduling: every goroutine that can take a step takes it, the broker
\* answers, and a ReadMessage that is repeated returns a record that is there.
PipelineFairness ==
    /\ WF_vars(CreateOrderPublish(TRUE))
    /\ WF_vars(\E c \in Calls : BrokerAck(c))
    /\ WF_vars(\E c \in Calls : DeliveryReport(c))
    /\ WF_vars(\E c \in Calls : PublishRecv(c))
    /\ WF_vars(RegisterHandler("order_created"))
    /\ WF_vars(InventorySubscribe(TRUE))
    /\ WF_vars(Start)
    /\ WF_vars(Select)
    /\ WF_vars((\E e \in PollErrors : PollError(e)) \/ (\E p \in Partitions : PollMessage(p)))
    /\ SF_vars(\E p \in Partitions : PollMessage(p))
    /\ WF_vars(HandlerPublish(TRUE))
    /\ WF_vars(HandlerPublishReturn)
    /\ WF_vars(CommitMessage(TRUE))

PipelineSpec == InitPublish /\ [][PipelineNext]_vars /\ PipelineFairness

\* ------------------------------------------------ properties of the Consumer

HasHandler(r) == TopicOf(r.p) \in handlers

C2_CursorNeverPassesFailedRecord ==
    \A r \in failedRun : r \in succeeded \/ committed[r.p] <= r.off

\* C3: when a handler returns an error for a record, Start commits nothing,
\* returns to the head of the loop, and neither invokes a handler on that
\* record again nor commits it during this run.
C3_HandlerErrorSkipsRecord ==
    [][/\ (cpc = "handler" /\ msg \notin failedRun /\ msg \in failedRun') =>
            /\ cpc' = "select"
            /\ committed' = committed
       /\ cpc' \in {"handler", "commit"} => msg' \notin failedRun']_vars

\* After a handler error the loop is polling again.
C3_Witness ==
    /\ cpc = "poll"
    /\ failedRun # {}
    /\ \A r \in failedRun : committed[r.p] <= r.off

C9_DeadlineMeansFailure ==
    (cpc = "commit" /\ HasHandler(msg)) => ~deadlinePassed

C4_ReturnsOnOneOfThreeEvents ==
    \A c \in Calls : ppc[c] = "returned" =>
        /\ outcome[c] \in {"ack", "err"} \/ pctx[c]
        /\ pres[c] = "nil" => outcome[c] = "ack" /\ reported[c]

\* C4 (amended): Publish has not returned unless one of four events occurred
\* for its own message: Produce refused the hand-off (an error, at once), the
\* broker confirmed it and the report was taken (nil), the broker reported a
\* delivery error and the report was taken (an error), or the caller's
\* context is done (its error).
C4_ReturnsOnOneOfFourEvents ==
    \A c \in Calls : ppc[c] = "returned" =>
        \/ pres[c] = "produceErr" /\ outcome[c] = "none"
        \/ pres[c] = "nil" /\ outcome[c] = "ack" /\ reported[c]
        \/ pres[c] = "deliveryErr" /\ outcome[c] = "err" /\ reported[c]
        \/ pres[c] = "ctxErr" /\ pctx[c] /\ outcome[c] # "none"

\* A call has returned nil on the broker's confirmation, another an error on
\* a refused hand-off.
C4_Witness ==
    \E c, d \in Calls :
        /\ ppc[c] = "returned" /\ pres[c] = "nil"
        /\ ppc[d] = "returned" /\ pres[d] = "produceErr"

\* C5: a call whose context is done while it waits is not blocked, and a
\* call that returns with no report on its channel returns the context's
\* error, which no delivery failure returns.
C5_TimeoutReturnsCtxErr ==
    /\ [][\A c \in Calls :
            (ppc[c] = "wait" /\ ppc'[c] = "returned" /\ chanBuf[c] = "empty") =>
                pctx[c] /\ pres'[c] = "ctxErr"]_vars
    /\ [](\A c \in Calls :
            /\ (ppc[c] = "wait" /\ pctx[c] /\ ~ppanicked) => ENABLED PublishCtxDone(c)
            /\ pres[c] = "ctxErr" => pctx[c]
            /\ pres[c] = "deliveryErr" => outcome[c] = "err" /\ reported[c])

\* A call has returned the context's error before the broker decided.
C5_Witness ==
    \E c \in Calls :
        ppc[c] = "returned" /\ pres[c] = "ctxErr" /\ outcome[c] = "queued"

\* C6: a delivery report emitted after its Publish call has returned goes to
\* the report-drain task through Events(), is not put on the call's channel,
\* and causes no fault.
C6_LateReportIsOnlyLogged ==
    [][\A c \in Calls :
            (ppc[c] = "returned" /\ ~reported[c] /\ reported'[c]) =>
                /\ ~ppanicked'
                /\ chanBuf'[c] = "empty"
                /\ events' = events + 1]_vars

\* The values the goroutine around Start can be handed as Start's result.
StartErrors == {"nil", "context.Canceled", "context.DeadlineExceeded", "error"}

\* C11: Start returns on cancellation with ctx.Err(), and that result is not
\* put on errChan; the goroutine around Start puts every other non-nil error
\* on errChan, from where the select of main takes it and cancels.
C11_CancellationIsNotAnError ==
    /\ [][(cpc = "select" /\ cpc' = "returned") =>
              /\ cancelled
              /\ StartResult = "context.Canceled"
              /\ errChan' = errChan
              /\ errChan' = <<>>]_vars
    /\ [](\A e \in StartErrors :
              ForwardsToErrChan(e) <=> e \notin {"nil", "context.Canceled"})
    /\ [][errChan' # errChan /\ errChan # <<>> /\ restarts' = restarts =>
              cancelled' /\ mpc' = "cancelled"]_vars

\* Start has returned on cancellation and errChan is empty.
C11_Witness ==
    /\ cpc = "returned"
    /\ cancelled
    /\ mpc \in {"cancelled", "closed"}
    /\ errChan = <<>>

\* C13: at most one handler invocation is in progress at any time, it is on
\* the record last polled, and ReadMessage is not called again before the
\* handler has returned and CommitMessage, where due, has been called.
C13_OneHandlerAtATime ==
    /\ [](/\ Cardinality(inflight) <= 1
          /\ inflight # {} => (cpc = "handler" /\ inflight = {msg})
          /\ cpc = "poll" => inflight = {})
    /\ [][/\ cpc' = "poll" /\ cpc # "poll" => cpc = "select"
          /\ cpc = "handler" /\ cpc' # "handler" =>
                cpc' \in {"commit", "select", "killed", "created"}
          /\ cpc = "commit" /\ cpc' # "commit" =>
                cpc' \in {"select", "killed", "created"}]_vars

\* The handler is running on the second record of a partition.
C13_Witness ==
    /\ cpc = "handler"
    /\ inflight = {msg}
    /\ msg.off = 1
    /\ position[msg.p] = 2

\* The dispatch of a record: ReadMessage has returned it to the loop.
Dispatched == cpc = "poll" /\ cpc' \in {"handler", "commit"}

AllSucceeded(p) ==
    /\ cpc \in {"select", "poll", "returned"}
    /\ failedRun = {}
    /\ ~commitFailed
    /\ position[p] > preLoop[p]

\* C15 (as stated): with a handler that always succeeds and commits that
\* succeed, after N records of a partition the committed offset is the offset
\* of the N-th record.
C15_CommittedIsOffsetOfLast ==
    \A p \in Partitions : AllSucceeded(p) => committed[p] = position[p] - 1

\* C15 (amended): with a handler that always succeeds and commits that
\* succeed, after N records of a partition the committed offset is the offset
\* of the N-th record plus one: the offset of the next record to read.
C15_CommittedIsOffsetAfterLast ==
    \A p \in Partitions :
        AllSucceeded(p) =>
            /\ committed[p] = position[p]
            /\ committed[p] = preLoop[p] + (position[p] - preLoop[p])
            /\ (msg.p = p /\ cpc # "returned") => committed[p] = msg.off + 1

\* Two records of a partition have been handled with success and committed.
C15_Witness ==
    /\ cpc = "select"
    /\ failedRun = {}
    /\ ~commitFailed
    /\ HasHandler(msg)
    /\ msg.off = 1
    /\ preLoop[msg.p] = 0
    /\ {[p |-> msg.p, off |-> 0], msg} \subseteq succeeded
    /\ committed[msg.p] = 2

\* The states of a process in which Start has been entered.
Started == InLoop \cup {"returned", "panicked", "killed"}

\* C16: as long as every processMessage of the run has returned an error, the
\* committed offset keeps its pre-loop value, and the Start of the restarted
\* consumer begins at that value again, presenting the records in offset
\* order from there.
C16_AlwaysFailingMakesNoProgress ==
    /\ []((cpc \in Started /\ ~okRun) => committed = preLoop)
    /\ [][/\ (cpc = "subscribed" /\ cpc' = "select" /\ ~okRun) =>
                /\ position' = preLoop
                /\ preLoop' = preLoop
          /\ (Dispatched /\ ~okRun) =>
                /\ msg'.off = position[msg'.p]
                /\ \A r \in failedRun : r.p = msg'.p => r.off < msg'.off
                /\ msg'.off = preLoop[msg'.p] +
                       Cardinality({r \in failedRun : r.p = msg'.p})]_vars

\* After a restart the handler is running on a record it failed on before,
\* having failed again on the record before that.
C16_Witness ==
    /\ restarts = 1
    /\ cpc = "handler"
    /\ ~okRun
    /\ msg.off = 1
    /\ {[p |-> msg.p, off |-> 0], msg} \subseteq prevFailed
    /\ [p |-> msg.p, off |-> 0] \in failedRun
    /\ committed = preLoop

\* C18: Subscribe returns an error and leaves the consumer unsubscribed when
\* the topic list is empty or SubscribeTopics refuses it; the owning process
\* then ends without entering the loop.
C18_SubscribeFailsFast ==
    /\ [](/\ cpc \in {"subscribed"} \cup Started => subscription # {}
          /\ cpc = "fatal" => (subscription = {} /\ mpc = "exited"))
    /\ [][/\ cpc = "fatal" => cpc' \in {"fatal", "created"}
          /\ cpc = "created" /\ cpc' # "created" =>
                /\ cpc' \in {"subscribed", "fatal"}
                /\ cpc' = "subscribed" <=> subscription' # {}]_vars

\* Subscribe has failed and the process has ended.
C18_Witness ==
    /\ cpc = "fatal"
    /\ mpc = "exited"
    /\ handlers # {}

\* A step of the loop: ReadMessage is called, a handler is invoked on a record,
\* or CommitMessage is called.
LoopStep ==
    \/ cpc = "select" /\ cpc' = "poll"
    \/ cpc = "poll" /\ cpc' = "handler"
    \/ cpc = "commit" /\ cpc' = "select"

\* C19: the consumer is Created, Subscribed, Running, Stopped in that order:
\* the loop is entered only from Subscribed, and once Start has returned or
\* Close has been called there is no poll, handler invocation or commit.
C19_NoLoopStepAfterClose ==
    [][/\ (cpc' \in InLoop /\ cpc \notin InLoop) => cpc = "subscribed"
       /\ (cpc' = "subscribed" /\ cpc # "subscribed") => cpc = "created"
       /\ (cpc = "returned" /\ restarts' = restarts) => cpc' = "returned"
       /\ mpc \in {"closed", "exited"} => ~LoopStep]_vars

\* C20: RegisterHandler is called before Subscribe and before Start only, and
\* while the consumer is subscribed or running the registry does not change.
C20_RegistryIsStatic ==
    [][/\ handlers' # handlers => (cpc = "created" \/ restarts' # restarts)
       /\ (cpc \in {"subscribed", "fatal"} \cup Started /\ restarts' = restarts) =>
             handlers' = handlers]_vars

\* The loop has looked a handler up in a registry of two handlers.
C20_Witness ==
    /\ cpc = "handler"
    /\ handlers = Topics
    /\ msg.off = 1

\* ------------------------------------------------ properties of the services

\* HandleOrderCreated is running on the record last polled.
InHandler == cpc = "handler" /\ TopicOf(msg.p) = "order_created" /\ HandlerCall(msg) \in Calls

\* HandleOrderCreated is blocked in Publish: no delivery report has arrived.
BlockedInPublish ==
    /\ InHandler
    /\ ppc[HandlerCall(msg)] = "wait"
    /\ chanBuf[HandlerCall(msg)] = "empty"
    /\ ~ppanicked

\* C12: when the context given to Start is cancelled, the context of the
\* running handler, which the handler gives to Publish, is done too; a handler
\* blocked in Publish then has Publish return ctx.Err(), returns that error,
\* and the step commits nothing and leads back to the head of the loop.
C12_CancelReachesHandlerPublish ==
    /\ []((InHandler /\ cancelled) => CtxIsDone(HandlerCall(msg)))
    /\ []((BlockedInPublish /\ cancelled) =>
              /\ ENABLED PublishCtxDone(HandlerCall(msg))
              /\ ~ENABLED PublishRecv(HandlerCall(msg))
              /\ ~ENABLED HandlerPublishReturn)
    /\ [][/\ (BlockedInPublish /\ cancelled
                  /\ ppc'[HandlerCall(msg)] # ppc[HandlerCall(msg)]) =>
                /\ ppc'[HandlerCall(msg)] = "returned"
                /\ pres'[HandlerCall(msg)] = "ctxErr"
                /\ cpc' = "handler"
          /\ (InHandler /\ ppc[HandlerCall(msg)] = "returned"
                  /\ pres[HandlerCall(msg)] # "nil" /\ cpc' # "handler") =>
                /\ cpc' = "select"
                /\ msg \in failedRun'
                /\ msg \notin succeeded'
                /\ committed' = committed]_vars

\* The handler has returned the context's error of a Publish that cancellation
\* interrupted, and nothing is committed.
C12_Witness ==
    /\ cpc = "select"
    /\ cancelled
    /\ msg \in failedRun
    /\ ppc[HandlerCall(msg)] = "returned"
    /\ pres[HandlerCall(msg)] = "ctxErr"
    /\ ~deadlinePassed
    /\ committed[msg.p] = 0

\* The record that the Publish call of CreateOrder appends to order_created.
OrderRecord == [p |-> PartitionOf("order_created"), off |-> 0]

\* The records a handler has been invoked on.
Invoked == succeeded \cup failedRun \cup inflight

OrderRecords == {r \in Records : TopicOf(r.p) = "order_created"}

\* C28: in the inventory service the committed cursor is past an order.created
\* record only when the inventory.reserved event that HandleOrderCreated
\* published for it was acknowledged and Publish returned nil; a record whose
\* Publish failed or timed out is not committed.
C28_CommittedOnlyAfterReservedAcked ==
    \A r \in OrderRecords :
        committed[r.p] > r.off =>
            /\ outcome[HandlerCall(r)] = "ack"
            /\ pres[HandlerCall(r)] = "nil"
            /\ r \in succeeded

\* C30: consumer.Close() is called only after the loop has returned: while
\* the owning process is past that call, no poll, handler invocation or commit
\* of the loop goroutine is in progress.
C30_ClosedOnlyAfterLoopReturned ==
    mpc = "closed" => cpc \notin {"poll", "handler", "commit"}

C26_NoRetryInPublish ==
    [][\A c \in Calls :
          /\ (outcome'[c] = "queued" /\ outcome[c] # "queued") =>
                /\ ppc[c] = "idle"
                /\ outcome[c] = "none"
                /\ ppc'[c] = "wait"
          /\ ppc[c] # "idle" => ppc'[c] # "idle"
          /\ outcome[c] # "none" => outcome'[c] # "none"
          /\ (ppc[c] = "idle" /\ ppc'[c] # "idle" /\ outcome'[c] = "none") =>
                /\ ppc'[c] = "returned"
                /\ pres'[c] = "produceErr"
                /\ chanBuf'[c] = "empty"]_vars

\* One call has returned a delivery error and another the error of its
\* context, and neither message was handed over again.
C26_Witness ==
    \E c, d \in Calls :
        /\ ppc[c] = "returned" /\ pres[c] = "deliveryErr" /\ outcome[c] = "err"
        /\ ppc[d] = "returned" /\ pres[d] = "ctxErr" /\ outcome[d] \in {"queued", "ack"}

\* C27: the channel of a call receives the report of that call's message only,
\* once; a call returns nil or a delivery error according to the outcome of
\* its own message, and taking a report changes no other call.
C27_ReportsArePrivate ==
    [][\A c \in Calls :
          /\ (chanBuf'[c] # chanBuf[c] /\ chanBuf'[c] # "empty") =>
                /\ ~reported[c] /\ reported'[c]
                /\ chanBuf'[c] = outcome[c]
                /\ \A d \in Calls \ {c} : chanBuf'[d] = chanBuf[d]
          /\ reported[c] => reported'[c]
          /\ (ppc[c] = "wait" /\ ppc'[c] = "returned" /\ chanBuf[c] # "empty"
                  /\ chanBuf'[c] = "empty") =>
                /\ reported[c]
                /\ pres'[c] = (IF outcome[c] = "ack" THEN "nil" ELSE "deliveryErr")
                /\ \A d \in Calls \ {c} :
                      /\ ppc'[d] = ppc[d]
                      /\ pres'[d] = pres[d]
                      /\ chanBuf'[d] = chanBuf[d]]_vars

\* Two calls are waiting at once, each with the report of its own message on
\* its channel, and the reports differ.
C27_Witness ==
    \E c, d \in Calls :
        /\ ppc[c] = "wait" /\ chanBuf[c] = "ack" /\ outcome[c] = "ack"
        /\ ppc[d] = "wait" /\ chanBuf[d] = "err" /\ outcome[d] = "err"

\* ------------------------------------------------ properties of Close

\* C21: Close always terminates and always closes the handle: once it has
\* entered Flush it reaches the closed handle, the handle is closed only after
\* Flush has returned, and what Flush left outstanding is reported.
C21_CloseAlwaysCloses ==
    /\ [][pclose' = "closed" /\ pclose # "closed" => pclose = "flushed"]_vars
    /\ [][pclose' = "flushed" /\ pclose # "flushed" =>
              pclose = "flushing" /\ lost' = Outstanding]_vars
    /\ (pclose = "flushing" ~> pclose = "closed")

\* ------------------------------------------------ properties of pkg/events

\* The bytes at hand are those Marshal gave for the envelope.
Intact == text = Marshal(ev)

\* C22: UnmarshalEvent(Marshal(NewEvent(type, payload))) succeeds with the
\* same id and type, and its data, decoded again into the struct of the
\* payload, is the payload.
C22_RoundTrip ==
    (dec # None /\ Intact) =>
        /\ ~dec.err
        /\ dec.event.id = ev.id
        /\ dec.event.type = ev.type
        /\ DecodeInto(ev.data.shape, dec.event.data) = ev.data

\* C23: bytes that were truncated or corrupted never decode: UnmarshalEvent
\* returns an error and no envelope, and HandleOrderCreated returns an error
\* and publishes nothing.
C23_DamagedBytesNeverDecode ==
    (text # None /\ ~Intact) =>
        /\ dec # None => (dec.err /\ dec.isNil)
        /\ hres # None => (hres.err /\ ~hres.published)

\* C25: on a well-formed envelope that is not an order.created envelope with
\* an OrderCreatedEvent payload, HandleOrderCreated returns an error and
\* publishes nothing; it never goes on with a payload of zero values.
C25_TypeAndPayloadMustAgree ==
    (hres # None /\ Intact) =>
        /\ (ev.type # "order.created" \/ ev.data.shape # "OrderCreatedEvent") =>
              (hres.err /\ ~hres.published)
        /\ hres.published => hres.payload.orderId # ""


\* C24: event ids are never reused: no two calls of the id generator within
\* one process lifetime return the same id, calls made back to back within
\* one tick of the clock included.
C24_IdsAreDistinct ==
    \A i, j \in 1 .. Len(ids) : i # j => ids[i] # ids[j]


\* The errors Publish returns, and whether the broker has persisted the
\* message of call c.
PublishErrors == {"produceErr", "deliveryErr", "ctxErr"}

Persisted(c) == outcome[c] = "ack"

CommitFails ==
    /\ cpc = "commit"
    /\ msg \in succeeded
    /\ cpc' \notin {"commit", "created", "killed"}
    /\ committed'[msg.p] # msg.off + 1

\* C32: when a handler succeeds but the commit of its record fails, the loop
\* logs the failure and goes on to the next poll: it does not end, the
\* committed cursor is unchanged, and the record is not presented again in
\* this process, every poll returning the record at the position of its
\* partition and moving the position past it, and no step of the loop moving
\* a position back. A restarted consumer starts at the committed cursor: a
\* handled record is ahead of its position again exactly when no commit of
\* its partition has stored a cursor beyond it.
C32_FailedCommitIsLoggedAndSkipped ==
    [][/\ CommitFails =>
             /\ cpc' = "select"
             /\ committed' = committed
             /\ commitFailed'
             /\ position' = position
       /\ (cpc \in InLoop /\ cpc' \in InLoop) =>
             \A p \in Partitions : position'[p] >= position[p]
       /\ Dispatched =>
             /\ msg'.off = position[msg'.p]
             /\ position'[msg'.p] = msg'.off + 1
       /\ (cpc = "subscribed" /\ cpc' = "select") =>
             \A r \in succeeded :
                 (position'[r.p] <= r.off) <=> (committed[r.p] <= r.off)]_vars

\* The handler runs on the second record of a partition in the first run,
\* having succeeded on the first one, whose commit failed.
C32_Witness ==
    /\ restarts = 0
    /\ cpc = "handler"
    /\ msg.off = 1
    /\ [p |-> msg.p, off |-> 0] \in succeeded
    /\ commitFailed
    /\ committed[msg.p] = 0

====
